---- MODULE Spec2Model ----
(***************************************************************************)
(* A model of crowdsourcing/views.py: the survey_detail / _survey_submit   *)
(* request path run by concurrent requests against one survey, the         *)
(* submissions query endpoint, the report pagination and the synthesized   *)
(* default report.                                                         *)
(***************************************************************************)
EXTENDS Integers, Sequences, FiniteSets, TLC

VARIABLES
    survey,        \* the Survey row: the fields the views read
    submissions,   \* the Submission table, in insertion order (index = pk)
    answers,       \* pks of the Submissions whose Answer rows are saved
    thanks,        \* session keys holding the survey_thanks_<slug> flag
    req,           \* the in-flight survey_detail / allowed_actions requests
    query,         \* request.GET of a submissions request: <<[key, value]>>
    listing,       \* the response of the submissions endpoint
    report_in,     \* the inputs of a _survey_report request
    report_out,    \* its outcome
    fields,        \* the Question rows of a survey, in declaration order
    default_out    \* the report _default_report returns

vars == <<survey, submissions, answers, thanks, req, query, listing,
          report_in, report_out, fields, default_out>>

detail_vars == <<survey, submissions, answers, thanks, req>>
filter_vars == <<query, listing>>
report_vars == <<report_in, report_out>>
default_vars == <<fields, default_out>>

not_detail == <<filter_vars, report_vars, default_vars>>
not_filter == <<detail_vars, report_vars, default_vars>>
not_report == <<detail_vars, filter_vars, default_vars>>
not_default == <<detail_vars, filter_vars, report_vars>>

-----------------------------------------------------------------------------
(* Bounds *)

MaxSubmissions == 2
MaxKeys == 2
MaxCount == 400
MaxPage == 27
MaxFields == 3

-----------------------------------------------------------------------------
(* Strings: str.lower() on the strings the model uses *)

Lower(s) ==
    CASE s = "F" -> "f"
      [] s = "False" -> "false"
      [] s = "FALSE" -> "false"
      [] s = "No" -> "no"
      [] s = "N" -> "n"
      [] s = "Yes" -> "yes"
      [] s = "K-ALICE" -> "k-alice"
      [] s = "K-ANON" -> "k-anon"
      [] OTHER -> s

-----------------------------------------------------------------------------
(* The survey_detail request path *)

Requests == {"r1", "r2"}
Visitors == {"alice", "anon"}
Methods == {"GET", "POST"}
MailOutcomes == {"sent", "smtp_error", "other_error"}

is_authenticated(v) == v # "anon"
is_anonymous(v) == ~is_authenticated(v)
session_key(v) == IF v = "alice" THEN "K-ALICE" ELSE "K-ANON"

Surveys ==
    [is_open : BOOLEAN, require_login : BOOLEAN,
     allow_multiple_submissions : BOOLEAN, moderate_submissions : BOOLEAN,
     email : BOOLEAN, public : BOOLEAN]

NoSurvey ==
    [is_open |-> FALSE, require_login |-> FALSE,
     allow_multiple_submissions |-> FALSE, moderate_submissions |-> FALSE,
     email |-> FALSE, public |-> FALSE]

can_have_public_submissions(s) == s.public

\* Survey.submissions_for(user, session_key): the pks of the matching rows
submissions_for(v, key) ==
    IF is_authenticated(v)
    THEN {i \in DOMAIN submissions : submissions[i].user = v}
    ELSE IF key # ""
         THEN {i \in DOMAIN submissions : submissions[i].session_key = key}
         ELSE {}

user_entered_survey(v) ==
    Cardinality(submissions_for(v, Lower(session_key(v)))) # 0

entered_no_more_allowed(v, s) ==
    /\ ~s.allow_multiple_submissions
    /\ user_entered_survey(v)

\* the gate without the check that the survey is open
can_show_form_ignoring_open(v, s) ==
    /\ is_authenticated(v) \/ ~s.require_login
    /\ ~entered_no_more_allowed(v, s)

can_show_form(v, s) ==
    /\ s.is_open
    /\ is_authenticated(v) \/ ~s.require_login
    /\ ~entered_no_more_allowed(v, s)

Idle ==
    [pc |-> "idle", who |-> "anon", method |-> "GET", survey |-> NoSurvey,
     had |-> FALSE, can |-> FALSE, forms |-> "none", sub |-> 0,
     mail |-> "none", resp |-> "", entered |-> FALSE, thanked |-> FALSE]


NoListing == [kind |-> "none", field |-> "", options |-> <<>>, pks |-> {}]

NoReportRequest ==
    [page |-> 0, count |-> 0, public |-> FALSE, report |-> "",
     default_report |-> FALSE, limit_results_to |-> 0,
     display_individual_results |-> FALSE]

NoReport ==
    [kind |-> "none", num_pages |-> 0, number |-> 0, first |-> 0, last |-> 0,
     pages_to_link |-> <<>>]

NoDefault == [kind |-> "none", displays |-> <<>>]

TypeOK ==
    /\ survey \in Surveys
    /\ Len(submissions) <= MaxSubmissions
    /\ answers \subseteq DOMAIN submissions
    /\ \A r \in Requests :
         req[r].pc \in {"idle", "gate", "submit", "save", "answers", "notify",
                        "show", "done"}

\* line 183: a closed survey with public results goes straight to the results
closed_with_results(s) == ~s.is_open /\ can_have_public_submissions(s)

\* lines 185-187
need_login(v, s) ==
    /\ s.is_open
    /\ s.require_login
    /\ ~is_authenticated(v)

\* the dispatch without the results redirect of line 194-195
survey_detail_route_no_redirect(can, method, v, s) ==
    IF can
    THEN IF method = "POST" THEN "submit" ELSE "show_unbound"
    ELSE "show_none"

\* the dispatch without the request.method test of line 189
survey_detail_route_any_method(can, method, v, s) ==
    IF can
    THEN "submit"
    ELSE IF need_login(v, s) THEN "show_none"
         ELSE IF can_have_public_submissions(s) THEN "redirect"
              ELSE "show_none"

\* lines 188-197: where survey_detail goes once the gate is evaluated
survey_detail_route(can, method, v, s) ==
    IF can
    THEN IF method = "POST" THEN "submit" ELSE "show_unbound"
    ELSE IF need_login(v, s) THEN "show_none"
         ELSE IF can_have_public_submissions(s) THEN "redirect"
              ELSE "show_none"

\* the handler with the SMTPException clause alone
send_survey_email_smtp_only(outcome) ==
    IF outcome = "sent" THEN "returned"
    ELSE IF outcome = "smtp_error" THEN "returned"
         ELSE "raised"

\* lines 150-155: what _send_survey_email does with the outcome of send()
send_survey_email(outcome) ==
    IF outcome = "sent" THEN "returned"
    ELSE IF outcome = "smtp_error" THEN "returned"
         ELSE "returned"

\* lines 87-94: the Submission row _survey_submit saves
new_submission(v, s) ==
    [user |-> IF is_authenticated(v) THEN v ELSE "none",
     session_key |-> Lower(session_key(v)),
     is_public |-> ~s.moderate_submissions]

Respond(r, kind) ==
    req' = [req EXCEPT ![r].pc = "done", ![r].resp = kind]

\* survey_detail, lines 182-184: load the survey, redirect when it is closed
\* with public results
Receive(r, v, m) ==
    /\ req[r].pc = "idle"
    /\ LET s == survey
           q == [req[r] EXCEPT !.who = v, !.method = m, !.survey = s,
                               !.had = user_entered_survey(v)]
       IN  IF closed_with_results(s)
           THEN req' = [req EXCEPT ![r] =
                          [q EXCEPT !.pc = "done", !.resp = "redirect_results"]]
           ELSE req' = [req EXCEPT ![r] = [q EXCEPT !.pc = "gate"]]
    /\ UNCHANGED <<survey, submissions, answers, thanks, not_detail>>

\* survey_detail, lines 185-197: evaluate the gate and dispatch
Gate(r) ==
    /\ req[r].pc = "gate"
    /\ LET v == req[r].who
           s == req[r].survey
           can == can_show_form(v, s)
           route == survey_detail_route(can, req[r].method, v, s)
           q == [req[r] EXCEPT !.can = can]
       IN  req' = [req EXCEPT ![r] =
             CASE route = "submit" -> [q EXCEPT !.pc = "submit"]
               [] route = "show_unbound" ->
                    [q EXCEPT !.pc = "show", !.forms = "unbound"]
               [] route = "show_none" ->
                    [q EXCEPT !.pc = "show", !.forms = "none"]
               [] OTHER ->
                    [q EXCEPT !.pc = "done", !.resp = "redirect_results"]]
    /\ UNCHANGED <<survey, submissions, answers, thanks, not_detail>>

\* _survey_submit, lines 70-86 and 111-112: the checks before persisting.
\* The gate has already read request.session (line 42), so the hasattr test
\* of line 74 holds whenever this point is reached.
Submit(r, valid) ==
    /\ req[r].pc = "submit"
    /\ LET v == req[r].who
           s == req[r].survey
       IN  IF s.require_login /\ is_anonymous(v)
           THEN Respond(r, "redirect_login")
           ELSE IF entered_no_more_allowed(v, s)
                THEN Respond(r, "already_submitted")
                ELSE IF valid
                     THEN req' = [req EXCEPT ![r].pc = "save"]
                     ELSE req' = [req EXCEPT ![r].pc = "show",
                                             ![r].forms = "errors"]
    /\ UNCHANGED <<survey, submissions, answers, thanks, not_detail>>

\* _survey_submit, lines 87-94: submission.save()
Save(r) ==
    /\ req[r].pc = "save"
    /\ Len(submissions) < MaxSubmissions
    /\ submissions' =
         Append(submissions, new_submission(req[r].who, req[r].survey))
    /\ req' = [req EXCEPT ![r].pc = "answers",
                          ![r].sub = Len(submissions) + 1]
    /\ UNCHANGED <<survey, answers, thanks, not_detail>>

\* _survey_submit, lines 95-104: the Answer rows of the submission
SaveAnswers(r) ==
    /\ req[r].pc = "answers"
    /\ answers' = answers \cup {req[r].sub}
    /\ req' = [req EXCEPT ![r].pc = "notify"]
    /\ UNCHANGED <<survey, submissions, thanks, not_detail>>

\* _survey_submit, lines 106-110, with _send_survey_email and
\* _survey_results_redirect
Notify(r, outcome) ==
    /\ req[r].pc = "notify"
    /\ LET s == req[r].survey
           sent == s.email
           mail == IF sent THEN outcome ELSE "none"
           q == [req[r] EXCEPT !.mail = mail]
       IN  /\ sent \/ outcome = "sent"
           /\ IF sent /\ send_survey_email(outcome) # "returned"
              THEN /\ req' = [req EXCEPT ![r] =
                        [q EXCEPT !.pc = "done", !.resp = "server_error"]]
                   /\ UNCHANGED thanks
              ELSE IF can_have_public_submissions(s)
                   THEN /\ req' = [req EXCEPT ![r] =
                             [q EXCEPT !.pc = "done",
                                       !.resp = "redirect_results",
                                       !.thanked = TRUE]]
                        /\ thanks' = thanks \cup {session_key(req[r].who)}
                   ELSE /\ req' = [req EXCEPT ![r] =
                             [q EXCEPT !.pc = "show", !.forms = "none"]]
                        /\ UNCHANGED thanks
    /\ UNCHANGED <<survey, submissions, answers, not_detail>>

\* _survey_show_form, lines 158-167
Show(r) ==
    /\ req[r].pc = "show"
    /\ req' = [req EXCEPT ![r].pc = "done", ![r].resp = "survey_detail",
                          ![r].entered = user_entered_survey(req[r].who)]
    /\ UNCHANGED <<survey, submissions, answers, thanks, not_detail>>

\* allowed_actions, lines 213-218
AllowedActions(r, v) ==
    /\ req[r].pc = "idle"
    /\ req' = [req EXCEPT ![r] =
         [req[r] EXCEPT !.pc = "done", !.resp = "json", !.who = v,
                        !.survey = survey,
                        !.can = can_show_form(v, survey),
                        !.entered = can_have_public_submissions(survey)]]
    /\ UNCHANGED <<survey, submissions, answers, thanks, not_detail>>

\* the response is sent; the worker takes the next request
Recycle(r) ==
    /\ req[r].pc = "done"
    /\ req' = [req EXCEPT ![r] = Idle]
    /\ UNCHANGED <<survey, submissions, answers, thanks, not_detail>>

\* Survey.is_open follows the survey's dates: it opens and closes with time
Clock ==
    /\ survey' = [survey EXCEPT !.is_open = ~survey.is_open]
    /\ UNCHANGED <<submissions, answers, thanks, req, not_detail>>

Init ==
    /\ survey \in Surveys
    /\ submissions = <<>>
    /\ answers = {}
    /\ thanks = {}
    /\ req = [r \in Requests |-> Idle]
    /\ query = <<>>
    /\ listing = NoListing
    /\ report_in = NoReportRequest
    /\ report_out = NoReport
    /\ fields = <<>>
    /\ default_out = NoDefault

Next ==
    \/ \E r \in Requests, v \in Visitors, m \in Methods : Receive(r, v, m)
    \/ \E r \in Requests : Gate(r)
    \/ \E r \in Requests, valid \in BOOLEAN : Submit(r, valid)
    \/ \E r \in Requests : Save(r)
    \/ \E r \in Requests : SaveAnswers(r)
    \/ \E r \in Requests, o \in MailOutcomes : Notify(r, o)
    \/ \E r \in Requests : Show(r)
    \/ \E r \in Requests, v \in Visitors : AllowedActions(r, v)
    \/ \E r \in Requests : Recycle(r)
    \/ Clock

Spec == Init /\ [][Next]_vars

-----------------------------------------------------------------------------
(* The submissions query endpoint *)

valid_filters ==
    <<"survey", "user", "submitted_from", "submitted_to", "featured">>

falses == {"f", "false", "no", "n", "0"}

Range(f) == {f[i] : i \in DOMAIN f}

\* the Submission rows the endpoint queries
StoredSubmissions ==
    <<[is_public |-> TRUE, featured |-> TRUE, survey |-> "s1",
       user |-> "alice", submitted_at |-> 10],
      [is_public |-> TRUE, featured |-> FALSE, survey |-> "s1",
       user |-> "none", submitted_at |-> 20],
      [is_public |-> TRUE, featured |-> TRUE, survey |-> "s2",
       user |-> "none", submitted_at |-> 30],
      [is_public |-> FALSE, featured |-> TRUE, survey |-> "s1",
       user |-> "alice", submitted_at |-> 20],
      [is_public |-> TRUE, featured |-> FALSE, survey |-> "s2",
       user |-> "alice", submitted_at |-> 30]>>

ValueError == -1

\* datetime.strptime(value, "%Y-%m-%dT%H:%M:%S") on the values the model uses
strptime(value) ==
    CASE value = "2010-04-05T13:02:03" -> 20
      [] value = "2010-04-09T00:00:00" -> 25
      [] OTHER -> ValueError

\* the values a query string gives each key
QueryValues(key) ==
    CASE key = "survey" -> {"s1", "s3"}
      [] key = "user" -> {"", "alice"}
      [] key \in {"submitted_from", "submitted_to"} ->
            {"2010-04-05T13:02:03", "2010-04-09T00:00:00", "05/04/2010"}
      [] key = "featured" -> {"", "f", "False", "No", "n", "0", "Yes", "1"}
      [] OTHER -> {"x"}

QueryKeys == Range(valid_filters) \cup {"page", "sort"}

QueryPairs ==
    UNION {{[key |-> k, value |-> x] : x \in QueryValues(k)} : k \in QueryKeys}

\* request.GET: the keys in the order keys() gives them, each key once
Queries ==
    UNION {{q \in [1..n -> QueryPairs] :
              \A i, j \in 1..n : i # j => q[i].key # q[j].key} :
           n \in 0..MaxKeys}

\* line 272: the value the featured key is filtered on
featured_value(value) ==
    IF Len(value) = 0 THEN FALSE ELSE ~(Lower(value) \in falses)

\* lines 250-274: whether row matches the filter built for (field, value)
matches(row, field, value) ==
    CASE field = "survey" -> row.survey = value
      [] field = "user" ->
            IF value = "" THEN row.user = "none" ELSE row.user = value
      [] field = "submitted_from" -> row.submitted_at >= strptime(value)
      [] field = "submitted_to" -> row.submitted_at <= strptime(value)
      [] field = "featured" -> row.featured = featured_value(value)

\* the loop of lines 247-277 from key i on, without the return of line 276
RECURSIVE filter_loop_skipping_unknown(_, _, _)
filter_loop_skipping_unknown(q, i, results) ==
    IF i > Len(q)
    THEN [kind |-> "json", field |-> "", options |-> <<>>, pks |-> results]
    ELSE LET field == q[i].key
             value == q[i].value
         IN  IF field \in Range(valid_filters)
             THEN IF /\ field \in {"submitted_from", "submitted_to"}
                     /\ strptime(value) = ValueError
                  THEN [kind |-> "invalid_format", field |-> field,
                        options |-> <<>>, pks |-> {}]
                  ELSE filter_loop_skipping_unknown(q, i + 1,
                         {pk \in results :
                            matches(StoredSubmissions[pk], field, value)})
             ELSE filter_loop_skipping_unknown(q, i + 1, results)

\* the loop of lines 247-277 from key i on, and the dump of line 278
RECURSIVE filter_loop(_, _, _)
filter_loop(q, i, results) ==
    IF i > Len(q)
    THEN [kind |-> "json", field |-> "", options |-> <<>>, pks |-> results]
    ELSE LET field == q[i].key
             value == q[i].value
         IN  IF field \in Range(valid_filters)
             THEN IF /\ field \in {"submitted_from", "submitted_to"}
                     /\ strptime(value) = ValueError
                  THEN [kind |-> "invalid_format", field |-> field,
                        options |-> <<>>, pks |-> {}]
                  ELSE filter_loop(q, i + 1,
                         {pk \in results :
                            matches(StoredSubmissions[pk], field, value)})
             ELSE [kind |-> "unknown_filter", field |-> field,
                   options |-> valid_filters, pks |-> {}]

public_submissions ==
    {pk \in DOMAIN StoredSubmissions : StoredSubmissions[pk].is_public}

submissions_skipping_unknown(q) ==
    filter_loop_skipping_unknown(q, 1, public_submissions)

\* submissions(request), lines 239-279
submissions_view(q) == filter_loop(q, 1, public_submissions)

SubmissionsRequest ==
    /\ listing.kind = "none"
    /\ listing' = submissions_view(query)
    /\ UNCHANGED <<query, not_filter>>

InitFilter ==
    /\ survey = NoSurvey
    /\ submissions = <<>>
    /\ answers = {}
    /\ thanks = {}
    /\ req = [r \in Requests |-> Idle]
    /\ query \in Queries
    /\ listing = NoListing
    /\ report_in = NoReportRequest
    /\ report_out = NoReport
    /\ fields = <<>>
    /\ default_out = NoDefault

NextFilter == SubmissionsRequest

SpecFilter == InitFilter /\ [][NextFilter]_vars

-----------------------------------------------------------------------------
(* The report view: page token, pagination, page links *)

num_per_page == 20

\* the page argument of the URL: absent, digits, or anything else
NoPage == -1
NotANumber == -2

\* False in pages_to_link; False == 0 in Python
PyFalse == 0

Min(a, b) == IF a < b THEN a ELSE b
Max(a, b) == IF a > b THEN a ELSE b

\* Paginator.num_pages, with allow_empty_first_page and no orphans
num_pages(count) == (Max(1, count) + num_per_page - 1) \div num_per_page

\* Paginator.validate_number: whether page(number) raises EmptyPage
EmptyPage(count, number) ==
    \/ number < 1
    \/ number > num_pages(count) /\ number # 1

\* lines 407-421: the number of the page paginate_or_404 returns
paginate_or_404(count, page) ==
    LET number == IF page = NoPage THEN 1 ELSE page
    IN  IF EmptyPage(count, number) THEN num_pages(count) ELSE number

\* the loop of lines 382-384 over range(i, stop)
RECURSIVE link_loop(_, _, _, _)
link_loop(i, stop, pages, acc) ==
    IF i >= stop THEN acc
    ELSE link_loop(i + 1, stop, pages,
            IF 1 <= i /\ i <= pages THEN Append(acc, i) ELSE acc)

\* lines 385-388, on a non-empty window
link_ends(window, pages) ==
    LET head == IF window[1] > 1 THEN <<1, PyFalse>> \o window ELSE window
    IN  IF head[Len(head)] < pages
        THEN head \o <<PyFalse, pages>>
        ELSE head

\* lines 372-376: the number of submissions handed to the paginator
paginated_count(in) ==
    IF ~in.display_individual_results THEN 0
    ELSE IF in.limit_results_to # 0
         THEN Min(in.count, in.limit_results_to)
         ELSE in.count

Failure(kind) == [NoReport EXCEPT !.kind = kind]

\* _survey_report, lines 335-404
survey_report(in) ==
    IF in.page = NotANumber THEN Failure("404")
    ELSE IF ~in.public THEN Failure("404")
    ELSE IF in.report = "missing" THEN Failure("404")
    ELSE IF in.report = "" /\ in.default_report THEN Failure("redirect")
    ELSE
        LET page == IF in.page = NoPage THEN 1 ELSE in.page
            count == paginated_count(in)
            pages == num_pages(count)
            number == paginate_or_404(count, page)
            window == link_loop(page - 5, page + 5, pages, <<>>)
        IN  IF window = <<>> THEN Failure("IndexError")
            ELSE [kind |-> "render", num_pages |-> pages, number |-> number,
                  first |-> (number - 1) * num_per_page + 1,
                  last |-> Min(number * num_per_page, count),
                  pages_to_link |-> link_ends(window, pages)]

ReportRequests ==
    [page : {NoPage, NotANumber} \cup 0..MaxPage,
     count : {n \in 0..MaxCount : n % num_per_page \in {0, 1}},
     public : BOOLEAN, report : {"", "named", "missing"},
     default_report : BOOLEAN, limit_results_to : {0, 25},
     display_individual_results : BOOLEAN]

SurveyReport ==
    /\ report_out.kind = "none"
    /\ report_out' = survey_report(report_in)
    /\ UNCHANGED <<report_in, not_report>>

InitReport ==
    /\ survey = NoSurvey
    /\ submissions = <<>>
    /\ answers = {}
    /\ thanks = {}
    /\ req = [r \in Requests |-> Idle]
    /\ query = <<>>
    /\ listing = NoListing
    /\ report_in \in ReportRequests
    /\ report_out = NoReport
    /\ fields = <<>>
    /\ default_out = NoDefault

NextReport == SurveyReport

SpecReport == InitReport /\ [][NextReport]_vars

-----------------------------------------------------------------------------
(* The synthesized default report *)

pie_choices == {"bool", "select", "choice", "numeric_select", "numeric_choice"}
all_choices == pie_choices \cup {"location"}

OptionTypes == all_choices \cup {"char", "integer"}

\* Survey.get_public_fields(): the public questions, in their order
get_public_fields(fs) == SelectSeq(fs, LAMBDA f : f.public)

\* the loop of lines 304-314 with the order taken from the field's position
\* among the public fields
RECURSIVE display_loop_by_position(_, _, _, _)
display_loop_by_position(public_fields, i, type, displays) ==
    IF i > Len(public_fields) THEN displays
    ELSE LET field == public_fields[i]
             t == IF field.option_type \in pie_choices THEN "PIE"
                  ELSE IF field.option_type = "location" THEN "MAP"
                       ELSE type
         IN  IF field.option_type \in all_choices
             THEN display_loop_by_position(public_fields, i + 1, t,
                    Append(displays,
                           [display_type |-> t, fieldnames |-> field.fieldname,
                            order |-> i]))
             ELSE display_loop_by_position(public_fields, i + 1, type,
                                           displays)

default_report_by_position(fs) ==
    [kind |-> "report",
     displays |-> display_loop_by_position(get_public_fields(fs), 1,
                                           "unbound", <<>>)]

\* the loop of lines 304-314 from field i on; field_count is count(1)
RECURSIVE display_loop(_, _, _, _, _)
display_loop(chart_fields, i, field_count, type, displays) ==
    IF i > Len(chart_fields) THEN displays
    ELSE LET field == chart_fields[i]
             t == IF field.option_type \in pie_choices THEN "PIE"
                  ELSE IF field.option_type = "location" THEN "MAP"
                       ELSE type
         IN  display_loop(chart_fields, i + 1, field_count + 1, t,
                Append(displays,
                       [display_type |-> t, fieldnames |-> field.fieldname,
                        order |-> field_count]))

\* _default_report, lines 288-316
default_report(fs) ==
    LET public_fields == get_public_fields(fs)
        chart_fields ==
            SelectSeq(public_fields, LAMBDA f : f.option_type \in all_choices)
    IN  [kind |-> "report",
         displays |-> display_loop(chart_fields, 1, 1, "unbound", <<>>)]

\* the questions of a survey: fieldname i is the i-th declared
FieldLists ==
    UNION {{fs \in [1..n -> [fieldname : 1..n, option_type : OptionTypes,
                             public : BOOLEAN]] :
              \A i \in 1..n : fs[i].fieldname = i} :
           n \in 0..MaxFields}

DefaultReport ==
    /\ default_out.kind = "none"
    /\ default_out' = default_report(fields)
    /\ UNCHANGED <<fields, not_default>>

InitDefault ==
    /\ survey = NoSurvey
    /\ submissions = <<>>
    /\ answers = {}
    /\ thanks = {}
    /\ req = [r \in Requests |-> Idle]
    /\ query = <<>>
    /\ listing = NoListing
    /\ report_in = NoReportRequest
    /\ report_out = NoReport
    /\ fields \in FieldLists
    /\ default_out = NoDefault

NextDefault == DefaultReport

SpecDefault == InitDefault /\ [][NextDefault]_vars

-----------------------------------------------------------------------------
(* Properties of the survey_detail request path *)

Belonging(v) == submissions_for(v, Lower(session_key(v)))

\* C1: with allow_multiple_submissions = False, no user/session ever has more
\* than one persisted Submission of the survey, however the requests interleave.
C1_OneEntryPerUser ==
    ~survey.allow_multiple_submissions =>
        \A v \in Visitors : Cardinality(Belonging(v)) <= 1

\* a finished survey_detail request of a logged-in user who already had a
\* submission when the request came in, on a one-entry survey
ReturningUser(r) ==
    /\ req[r].pc = "done"
    /\ req[r].resp # "json"
    /\ is_authenticated(req[r].who)
    /\ req[r].had
    /\ ~req[r].survey.allow_multiple_submissions

\* C2 as stated: such a request is answered with the already_submitted view.
C2_AlreadySubmittedView ==
    \A r \in Requests :
        ReturningUser(r) => req[r].resp = "already_submitted"

\* C2 amended: such a request never gets the entry form and persists nothing;
\* it is redirected to the results when the survey can have public submissions
\* and otherwise gets the survey page with no forms and entered = True.
C2_NoEntryForm ==
    \A r \in Requests :
        ReturningUser(r) =>
            /\ req[r].sub = 0
            /\ IF req[r].survey.public
               THEN req[r].resp = "redirect_results" /\ ~req[r].thanked
               ELSE /\ req[r].resp = "survey_detail"
                    /\ req[r].forms = "none"
                    /\ req[r].entered

C2_Witness ==
    \E r \in Requests :
        /\ ReturningUser(r)
        /\ req[r].method = "POST"
        /\ req[r].survey.is_open
        /\ req[r].resp = "survey_detail"

\* the gate as the specification words it, over the survey row s read by the
\* request and the Submission table
GateAsSpecified(v, s) ==
    /\ s.is_open
    /\ (v # "anon") \/ ~s.require_login
    /\ ~(/\ ~s.allow_multiple_submissions
         /\ \E i \in DOMAIN submissions :
               IF v # "anon"
               THEN submissions[i].user = v
               ELSE submissions[i].session_key = Lower(session_key(v)))

\* C3: whenever _can_show_form is evaluated (by survey_detail or by
\* allowed_actions), its value is true exactly when the survey is open, the
\* user is authenticated or login is not required, and the one-entry policy is
\* not exhausted.
C3_SubmissionGate ==
    [][\A r \in Requests :
         /\ (req[r].pc = "gate" /\ req'[r].pc # "gate") =>
                req'[r].can = GateAsSpecified(req[r].who, req[r].survey)
         /\ (req[r].pc = "idle" /\ req'[r].resp = "json") =>
                /\ req'[r].can = GateAsSpecified(req'[r].who, survey)
                /\ req'[r].entered = survey.public]_vars

C3_Witness ==
    \E r \in Requests :
        /\ req[r].pc \in {"show", "done"}
        /\ req[r].resp # "json"
        /\ req[r].survey.is_open
        /\ ~req[r].survey.require_login
        /\ req[r].had
        /\ ~req[r].can

\* C8: once the notification was attempted, whatever send() did, the
\* Submission and its Answers are persisted and the response is the success
\* outcome: the results redirect with the thanks flag when the survey can have
\* public submissions, the survey page without forms otherwise.
C8_NotificationNotFatal ==
    \A r \in Requests :
        req[r].mail # "none" =>
            /\ req[r].sub \in DOMAIN submissions
            /\ req[r].sub \in answers
            /\ req[r].pc \in {"show", "done"}
            /\ req[r].pc = "done" =>
                 IF req[r].survey.public
                 THEN /\ req[r].resp = "redirect_results"
                      /\ req[r].thanked
                      /\ session_key(req[r].who) \in thanks
                 ELSE /\ req[r].resp = "survey_detail"
                      /\ req[r].forms = "none"
                      /\ req[r].entered

C8_Witness ==
    \E r1, r2 \in Requests :
        /\ req[r1].pc = "done" /\ req[r1].mail = "other_error"
        /\ req[r1].resp = "redirect_results"
        /\ req[r2].pc = "done" /\ req[r2].mail = "smtp_error"

\* C10: the Submission and Answer tables change only in a step of a POST
\* request whose survey was open and whose user was authenticated or not
\* required to log in; every other step leaves both tables unchanged.
C10_PersistencePrecondition ==
    [][(submissions' # submissions \/ answers' # answers) =>
         \E r \in Requests :
            /\ req'[r] # req[r]
            /\ req[r].method = "POST"
            /\ req[r].survey.is_open
            /\ is_authenticated(req[r].who) \/ ~req[r].survey.require_login
            /\ \A o \in Requests \ {r} : req'[o] = req[o]]_vars

C10_Witness ==
    \E r \in Requests :
        /\ req[r].pc = "done"
        /\ req[r].sub \in answers
        /\ ~survey.is_open
        /\ \E o \in Requests : req[o].pc = "done" /\ req[o].method = "GET"

-----------------------------------------------------------------------------
(* Properties of the submissions endpoint *)

Answered == listing.kind # "none"

Unrecognized == {i \in DOMAIN query : query[i].key \notin Range(valid_filters)}

BadDates ==
    {i \in DOMAIN query :
        /\ query[i].key \in {"submitted_from", "submitted_to"}
        /\ query[i].value \notin {"2010-04-05T13:02:03", "2010-04-09T00:00:00"}}

First(S) == CHOOSE i \in S : \A j \in S : i <= j

\* C6 as stated: a query string with a key outside the whitelist is always
\* answered with the unrecognized-key error, which names such a key and the
\* valid set, and with no submission data.
C6_UnrecognizedKeyError ==
    (Answered /\ Unrecognized # {}) =>
        /\ listing.kind = "unknown_filter"
        /\ listing.field \in {query[i].key : i \in Unrecognized}
        /\ listing.options = valid_filters
        /\ listing.pks = {}

\* C6 amended: such a query string is always answered with an error text and
\* no submission data: the unrecognized-key error naming the first unrecognized
\* key and the valid set, unless a submitted_from / submitted_to key with a
\* value that is not in the date format comes earlier in the iteration, and
\* then the invalid-format error naming that date key.
C6_ErrorWithoutData ==
    (Answered /\ Unrecognized # {}) =>
        /\ listing.pks = {}
        /\ LET u == First(Unrecognized)
               early == {i \in BadDates : i < u}
           IN  IF early = {}
               THEN /\ listing.kind = "unknown_filter"
                    /\ listing.field = query[u].key
                    /\ listing.options = valid_filters
               ELSE /\ listing.kind = "invalid_format"
                    /\ listing.field = query[First(early)].key

C6_Witness ==
    /\ Answered
    /\ Len(query) = 2
    /\ query[1].key = "featured"
    /\ query[2].key = "sort"
    /\ listing.kind = "unknown_filter"

WithoutFeatured == SelectSeq(query, LAMBDA p : p.key # "featured")

FeaturedGiven == {i \in DOMAIN query : query[i].key = "featured"}

\* C7: a featured value of "", "f", "false", "n", "no" or "0" (in any case)
\* returns the same set as the query without the featured key; any other value
\* returns the featured submissions of that set.
C7_FeaturedNormalization ==
    (listing.kind = "json" /\ FeaturedGiven # {}) =>
        LET value == query[First(FeaturedGiven)].value
            plain == submissions_view(WithoutFeatured).pks
        IN  IF value = "" \/ Lower(value) \in {"f", "false", "n", "no", "0"}
            THEN listing.pks = plain
            ELSE listing.pks = {pk \in plain : StoredSubmissions[pk].featured}

-----------------------------------------------------------------------------
(* Properties of the report view *)

\* the request gets as far as the paginator
Paginated ==
    /\ report_out.kind # "none"
    /\ report_in.page # NotANumber
    /\ report_in.public
    /\ report_in.report # "missing"
    /\ ~(report_in.report = "" /\ report_in.default_report)

LastPage == num_pages(paginated_count(report_in))

\* C4: a page number beyond the last page, however far, is answered with the
\* report rendered with the last page's contents, never with an error.
C4_PaginationClamp ==
    (Paginated /\ report_in.page > LastPage) =>
        /\ report_out.kind = "render"
        /\ report_out.number = LastPage
        /\ report_out.first = (LastPage - 1) * num_per_page + 1
        /\ report_out.last = paginated_count(report_in)

\* the pages lo .. hi in ascending order
Ascending(lo, hi) == [k \in 1..(hi - lo + 1) |-> lo + k - 1]

\* C5: for a page within 1 .. num_pages, pages_to_link lists the pages from
\* page - 5 to page + 5 that exist, with [1, False] in front when it does not
\* start at 1 and [False, num_pages] behind when it does not end at num_pages.
C5_PageLinkWindow ==
    (Paginated /\ report_in.page \in 1..LastPage) =>
        LET lo == Max(1, report_in.page - 5)
            hi == Min(LastPage, report_in.page + 5)
        IN  /\ report_out.kind = "render"
            /\ report_out.pages_to_link =
                 (IF lo > 1 THEN <<1, PyFalse>> ELSE <<>>)
                 \o Ascending(lo, hi)
                 \o (IF hi < LastPage THEN <<PyFalse, LastPage>> ELSE <<>>)

-----------------------------------------------------------------------------
(* Properties of the default report *)

\* the fields that get a display: public, and of a chart or map type
Charted ==
    {i \in DOMAIN fields :
        /\ fields[i].public
        /\ fields[i].option_type \in
             {"bool", "select", "choice", "numeric_select", "numeric_choice",
              "location"}}

\* C9: the displays of the default report are exactly the public fields of
\* type boolean, select, choice, numeric-select, numeric-choice or location,
\* in field order; PIE for the first five types and MAP for location; with the
\* order values 1, 2, ..., n.
C9_DefaultReport ==
    default_out.kind = "report" =>
        LET displays == default_out.displays
        IN  /\ Len(displays) = Cardinality(Charted)
            /\ \A k \in DOMAIN displays :
                 LET f == displays[k].fieldnames
                 IN  /\ displays[k].order = k
                     /\ f \in Charted
                     /\ Cardinality({i \in Charted : i <= f}) = k
                     /\ displays[k].display_type =
                          IF fields[f].option_type = "location"
                          THEN "MAP" ELSE "PIE"

\* the example: F1 boolean public, F2 private, F3 location public
C9_Witness ==
    /\ Len(fields) = 3
    /\ fields[1].option_type = "bool" /\ fields[1].public
    /\ fields[2].option_type = "char" /\ ~fields[2].public
    /\ fields[3].option_type = "location" /\ fields[3].public
    /\ default_out.displays =
         <<[display_type |-> "PIE", fieldnames |-> 1, order |-> 1],
           [display_type |-> "MAP", fieldnames |-> 3, order |-> 2]>>

====
